---- MODULE Spec2Model ----
(***************************************************************************)
(* Model of bot.py: a Telegram background-removal bot.  The state is the   *)
(* per-user user_data flag STATE_WAITING_FOR_IMAGE, the queue of inbound   *)
(* updates, and the position and locals of the one handler coroutine the   *)
(* Application runs at a time (main() builds the Application with its      *)
(* default, sequential update processing, and requests.post blocks the     *)
(* event loop).  Every await on the transport (reply_text, edit_text,      *)
(* get_file, download, send_document) may raise.                           *)
(***************************************************************************)
EXTENDS Integers, Sequences, FiniteSets, TLC

\* ---------------------------------------------------------------- bounds
MaxQueue == 1

Users == {"A", "B"}
Kinds == {"start", "help", "arm", "photo", "other"}

NoUpdate == [user |-> "none", kind |-> "none"]

Min(a, b) == IF a <= b THEN a ELSE b

\* ------------------------------------------------------------ user_data
\* context.user_data[STATE_WAITING_FOR_IMAGE]: key absent, True or False.
WaitingValues == {"absent", "true", "false"}

\* A second reading of the flag: any stored value counts as armed.
IsWaitingAnyStored(v) == v # "absent"

\* A third reading of the flag: a missing key defaults to armed.
IsWaitingDefaultTrue(v) == v # "false"

\* context.user_data.get(STATE_WAITING_FOR_IMAGE) is True
IsWaitingForImage(v) == v = "true"

\* A pop that removes nothing.
PopStateKeeps(ud, u) == ud

\* context.user_data.pop(STATE_WAITING_FOR_IMAGE, None)
PopState(ud, u) == [ud EXCEPT ![u] = "absent"]

\* One flag shared by all users.
SetWaitingGlobal(ud, u) == [v \in DOMAIN ud |-> "true"]

\* context.user_data[STATE_WAITING_FOR_IMAGE] = True
SetWaiting(ud, u) == [ud EXCEPT ![u] = "true"]

\* A finally block that forgets the reset.
FinallyKeepsState(ud, u) == ud

\* finally: context.user_data[STATE_WAITING_FOR_IMAGE] = False
FinallyResetState(ud, u) == [ud EXCEPT ![u] = "false"]

\* ------------------------------------------------------------- messages
\* A text is its identity and its length; s[:k] keeps the identity and
\* cuts the length.
NoText == [id |-> "", len |-> 0]
Prefix(t, k) == [id |-> t.id, len |-> Min(t.len, k)]

ApiErrorExcerptLen == 200
UnexpectedExcerptLen == 500

\* Every outbound message has the same shape; unused fields are empty.
Msg(label) ==
  [label |-> label, status |-> 0, title |-> "", detail |-> "",
   excerpt |-> NoText, bytes |-> "", filename |-> <<>>]

NoMsg == Msg("none")
PromptMsg == Msg("tap_button_first")
InitialFailMsg == Msg("initial_progress_failed")
TimeoutMsg == Msg("timed_out")
ConnectMsg == Msg("could_not_connect")
InternalMsg == Msg("unexpected_error")
OopsMsg == Msg("oops")
WelcomeMsg == Msg("welcome")
HelpMsg == Msg("help")
ArmedMsg == Msg("send_image_now")
WaitingMsg == Msg("waiting_for_image")
IdleMsg == Msg("tap_to_start")

UnexpectedMsg(text) ==
  [Msg("unexpected_response") EXCEPT !.excerpt = Prefix(text, UnexpectedExcerptLen)]

\* The progress labels of the loop, in order.
steps == <<"5%", "15%", "25%", "40%", "55%", "70%", "85%", "95%">>

\* ------------------------------------------------------ the API response
\* A Content-Type header is a sequence of tokens: <<"image/", "png">> is
\* image/png, <<>> is a missing header.
SlashTokens == {"image/", "Image/", "text/", "application/"}

ContentTypes ==
  { <<"image/", "png">>, <<"Image/", "PNG">>, <<"image/", "jpeg">>,
    <<"text/", "plain">>, <<"application/", "json">>, <<>> }

\* str.lower() on one token
LowerToken(t) ==
  CASE t = "Image/" -> "image/"
    [] t = "PNG" -> "png"
    [] OTHER -> t

\* response.headers.get('Content-Type', '').lower()
Lower(ct) == [k \in 1..Len(ct) |-> LowerToken(ct[k])]

\* pat in ct  (substring test)
Contains(ct, pat) ==
  \E k \in 1..(Len(ct) - Len(pat) + 1) : SubSeq(ct, k, k + Len(pat) - 1) = pat

\* ct.split('/')[-1]
AfterLastSlash(ct) ==
  LET idx == {k \in 1..Len(ct) : ct[k] \in SlashTokens}
      last == IF idx = {} THEN 0 ELSE CHOOSE k \in idx : \A m \in idx : m <= k
  IN SubSeq(ct, last + 1, Len(ct))

\* Parsed JSON values, all of one shape.
NoItem == [t |-> "none", hasTitle |-> FALSE, title |-> "", hasDetail |-> FALSE, detail |-> ""]
ErrorItem(hasTitle, hasDetail) ==
  [t |-> "obj", hasTitle |-> hasTitle,
   title |-> IF hasTitle THEN "Insufficient credits" ELSE "",
   hasDetail |-> hasDetail,
   detail |-> IF hasDetail THEN "no credits left" ELSE ""]
NumberItem == [NoItem EXCEPT !.t = "num"]

Errors(t, items) == [t |-> t, items |-> items]
Json(t, errors) == [t |-> t, errors |-> errors]

JsonValues ==
  { Json("invalid", Errors("missing", <<>>)),            \* body is not JSON
    Json("null", Errors("missing", <<>>)),               \* null
    Json("obj", Errors("missing", <<>>)),                \* {}
    Json("obj", Errors("null", <<>>)),                   \* {"errors": null}
    Json("obj", Errors("str", <<>>)),                    \* {"errors": "quota"}
    Json("obj", Errors("list", <<>>)),                   \* {"errors": []}
    Json("obj", Errors("list", <<NumberItem>>)),         \* {"errors": [5]}
    Json("obj", Errors("list", <<ErrorItem(FALSE, TRUE)>>)),
    Json("obj", Errors("list", <<ErrorItem(TRUE, FALSE)>>)),
    Json("obj", Errors("list", <<ErrorItem(TRUE, TRUE), ErrorItem(TRUE, FALSE)>>)) }

Body(id, len, json) == [id |-> id, len |-> len, json |-> json]
NoBody == Body("", 0, Json("invalid", Errors("missing", <<>>)))

\* Bodies of error responses: one text per JSON shape, short or long.
ErrorBodies ==
  {Body("error_body", 350, j) : j \in JsonValues}
  \cup {Body("error_body", 120, Json("invalid", Errors("missing", <<>>)))}

\* Bodies of the other responses: image bytes or diagnostic text.
PlainBodies ==
  { Body("png_bytes", 300, Json("invalid", Errors("missing", <<>>))),
    Body("diagnostic_page", 900, Json("invalid", Errors("missing", <<>>))) }

ErrorStatuses == {400, 503}
OtherStatuses == {200, 304}

Response(kind, exc, status, ctype, body) ==
  [kind |-> kind, exc |-> exc, status |-> status, ctype |-> ctype, body |-> body]
NoResponse == Response("none", "", 0, <<>>, NoBody)

\* What requests.post can do within its 45 s budget.
Responses ==
  {Response("raise", e, 0, <<>>, NoBody) :
      e \in {"ReadTimeout", "ConnectTimeout", "ConnectionError"}}
  \cup {Response("resp", "", s, <<"application/", "json">>, b) :
      s \in ErrorStatuses, b \in ErrorBodies}
  \cup {Response("resp", "", s, ct, b) :
      s \in OtherStatuses, ct \in ContentTypes, b \in PlainBodies}

\* response.text
TextOf(body) == [id |-> body.id, len |-> body.len]

\* response.raise_for_status(): "Raises HTTPError for bad responses (4xx or 5xx)"
RaisesForStatus(s) == 400 <= s /\ s < 600

\* The classes an exception is an instance of.
Bases(exc) ==
  CASE exc = "HTTPError" -> {"HTTPError", "RequestException", "Exception"}
    [] exc = "ReadTimeout" -> {"Timeout", "RequestException", "Exception"}
    [] exc = "ConnectTimeout" ->
         {"ConnectionError", "Timeout", "RequestException", "Exception"}
    [] exc = "ConnectionError" -> {"ConnectionError", "RequestException", "Exception"}
    [] OTHER -> {"Exception"}

\* The except clauses with RequestException tested before Timeout.
ExceptClausesBaseFirst == <<"HTTPError", "RequestException", "Timeout", "Exception">>

\* The except clauses of handle_photo, in source order.
ExceptClauses == <<"HTTPError", "Timeout", "RequestException", "Exception">>

\* The most general matching clause instead of the first.
CatchingClauseLast(exc) ==
  LET hits == {k \in 1..Len(ExceptClauses) : ExceptClauses[k] \in Bases(exc)}
  IN ExceptClauses[CHOOSE k \in hits : \A m \in hits : m <= k]

\* The clause that catches exc: the first one naming a class of exc.
CatchingClause(exc) ==
  LET hits == {k \in 1..Len(ExceptClauses) : ExceptClauses[k] \in Bases(exc)}
  IN ExceptClauses[CHOOSE k \in hits : \A m \in hits : k <= m]

\* The message built with the detail left out.
ApiErrorMsgNoDetail(status, item, text) ==
  [Msg("api_error") EXCEPT !.status = status, !.title = item.title]

\* error_message_text when errors[0] has a title
ApiErrorMsgTitled(status, item, text) ==
  [Msg("api_error") EXCEPT
     !.status = status, !.title = item.title,
     !.detail = IF item.hasDetail THEN item.detail ELSE ""]

\* error_message_text when the raw text is shown: e.response.text[:200]
ApiErrorMsgRaw(status, text) ==
  [Msg("api_error") EXCEPT
     !.status = status, !.excerpt = Prefix(text, ApiErrorExcerptLen)]

\* bool(errors)
Truthy(errors) ==
  CASE errors.t = "list" -> Len(errors.items) > 0
    [] errors.t = "str" -> TRUE
    [] OTHER -> FALSE

\* The except HTTPError clause up to its send: the message text, or an
\* exception other than ValueError leaving the clause (escapes).
HttpErrorText(resp) ==
  LET j == resp.body.json
      text == TextOf(resp.body)
      errors == IF j.errors.t = "missing" THEN Errors("list", <<>>) ELSE j.errors
  IN CASE j.t = "invalid" ->
            [escapes |-> FALSE, msg |-> ApiErrorMsgRaw(resp.status, text)]
       [] j.t # "obj" ->                       \* no .get on a non-dict
            [escapes |-> TRUE, msg |-> NoMsg]
       [] Truthy(errors) /\ errors.t = "list" /\ errors.items[1].t # "obj" ->
            [escapes |-> TRUE, msg |-> NoMsg]  \* 'title' in 5
       [] Truthy(errors) /\ errors.t = "list" /\ errors.items[1].hasTitle ->
            [escapes |-> FALSE,
             msg |-> ApiErrorMsgTitled(resp.status, errors.items[1], text)]
       [] OTHER ->
            [escapes |-> FALSE, msg |-> ApiErrorMsgRaw(resp.status, text)]

\* The document that carries the uploaded bytes instead of the result.
DocumentOfUpload(resp, upload) ==
  [Msg("document") EXCEPT !.bytes = upload, !.filename = <<"bg_removed.png">>]

\* InputFile(io.BytesIO(processed_image_bytes), filename=output_filename)
Document(resp, upload) ==
  LET ct == Lower(resp.ctype)
  IN [Msg("document") EXCEPT
        !.bytes = resp.body.id,
        !.filename = IF Contains(ct, <<"image/", "png">>)
                     THEN <<"bg_removed.png">>
                     ELSE <<"bg_removed_output.">> \o AfterLastSlash(ct)]

\* A header lookup whose default is the expected type.
ContentClassDefaultPng(ctype) ==
  LET ct == Lower(IF ctype = <<>> THEN <<"image/", "png">> ELSE ctype)
  IN IF Contains(ct, <<"image/", "png">>) THEN "png"
     ELSE IF Contains(ct, <<"image/">>) THEN "image" ELSE "other"

\* The content-type test of lines 165-172.
ContentClass(ctype) ==
  LET ct == Lower(ctype)
  IN IF Contains(ct, <<"image/", "png">>) THEN "png"
     ELSE IF Contains(ct, <<"image/">>) THEN "image" ELSE "other"

\* The exception requests.post / raise_for_status raises, or "none".
RaisedBy(resp) ==
  IF resp.kind = "raise" THEN resp.exc
  ELSE IF RaisesForStatus(resp.status) THEN "HTTPError" ELSE "none"

\* Lines 160-225 up to the next await: where the handler goes, the message
\* it is about to send, and whether an exception is already propagating.
Step(next, msg, exc) == [next |-> next, msg |-> msg, exc |-> exc]
AfterPost(resp, upload) ==
  LET e == RaisedBy(resp)
      clause == CatchingClause(e)
  IN IF e = "none" THEN
       IF ContentClass(resp.ctype) = "other"
       THEN Step("send_unexpected", UnexpectedMsg(TextOf(resp.body)), FALSE)
       ELSE Step("edit_completed", Document(resp, upload), FALSE)
     ELSE CASE clause = "HTTPError" ->
                 LET r == HttpErrorText(resp)
                 IN IF r.escapes THEN Step("finally", NoMsg, TRUE)
                    ELSE Step("send_error", r.msg, FALSE)
            [] clause = "Timeout" -> Step("send_error", TimeoutMsg, FALSE)
            [] clause = "RequestException" -> Step("send_error", ConnectMsg, FALSE)
            [] OTHER -> Step("send_error", InternalMsg, FALSE)

\* ---------------------------------------------------------------- state
VARIABLES
  user_data,        \* per user: the STATE_WAITING_FOR_IMAGE entry
  queue,            \* updates received and not yet handled
  cur,              \* the update being handled
  pc,               \* where its handler is
  progress_msg,     \* handle_photo's progress_msg is not None
  step,             \* entries of steps the loop has consumed
  image_byte_array, \* the downloaded upload, "" before the download
  response,         \* what requests.post did
  pending,          \* the message the next send carries
  raised,           \* an exception is propagating out of the try statement
  outbox,           \* this update's non-progress sends, in order, each ok or failed
  lateProgress,     \* a progress emission was attempted after such a send
  emissions,        \* progress emissions attempted for this update
  progressFailed,   \* one of them was rejected by the transport
  progressAfterFail, \* a progress emission was attempted after a rejected one
  downloads,        \* get_file calls of this update
  apiCalls,         \* requests.post calls of this update
  callsSinceArm,    \* per user: requests.post calls since the last button press
  armedAtDispatch   \* the user's flag when this update was taken up

vars ==
  <<user_data, queue, cur, pc, progress_msg, step, image_byte_array, response,
    pending, raised, outbox, lateProgress, emissions, progressFailed,
    progressAfterFail, downloads, apiCalls, callsSinceArm, armedAtDispatch>>

history == <<lateProgress, emissions, progressFailed, progressAfterFail>>

locals == <<progress_msg, step, image_byte_array, response, pending, raised>>
counters == <<downloads, apiCalls, callsSinceArm>>

Init ==
  /\ user_data = [u \in Users |-> "absent"]
  /\ queue = <<>>
  /\ cur = NoUpdate
  /\ pc = "idle"
  /\ progress_msg = FALSE
  /\ step = 0
  /\ image_byte_array = ""
  /\ response = NoResponse
  /\ pending = NoMsg
  /\ raised = FALSE
  /\ outbox = <<>>
  /\ lateProgress = FALSE
  /\ emissions = 0
  /\ progressFailed = FALSE
  /\ progressAfterFail = FALSE
  /\ downloads = 0
  /\ apiCalls = 0
  /\ callsSinceArm = [u \in Users |-> 0]
  /\ armedAtDispatch = "absent"

\* A non-progress send: reply_text, edit_text or send_document, ok or raising.
Emit(msg, via, ok) == outbox' = Append(outbox, [msg |-> msg, via |-> via, ok |-> ok])

\* A progress emission (the 0% reply or an edit with a progress label).
Progress(ok) ==
  /\ lateProgress' = (lateProgress \/ outbox # <<>>)
  /\ emissions' = emissions + 1
  /\ progressFailed' = (progressFailed \/ ~ok)
  /\ progressAfterFail' = (progressAfterFail \/ progressFailed)

\* A failed edit that is logged and otherwise ignored.
AfterEditKeepsMessage(ok) == TRUE

\* progress_msg after an edit: kept if it went through, None if it raised.
AfterEdit(ok) == ok

\* A loop that stops one entry short.
LoopStopsEarly(ok, k) == ok /\ k < Len(steps) - 1

\* The loop over steps goes on after entry k unless the edit raised (break).
LoopContinues(ok, k) == ok /\ k < Len(steps)

\* A failed get_file that is tried again.
AfterGetFileRetry(ok) == IF ok THEN "download" ELSE "get_file"

\* After get_file: on to the download, or to except Exception.
AfterGetFile(ok) == IF ok THEN "download" ELSE "send_error"

\* A failed download that is ignored.
AfterDownloadIgnoresFailure(ok) == "edit_sending"

\* After download_as_bytearray: on to the API step, or to except Exception.
AfterDownload(ok) == IF ok THEN "edit_sending" ELSE "send_error"

\* An apology branch without its return.
AfterInitialApologyFallsThrough == "edit_downloading"

\* return  # Exit if initial message fails
AfterInitialApology == "done"

\* A handler that resets the flag on every message.
StateAfterOtherResets(ud, u) == [ud EXCEPT ![u] = "false"]

\* A handler that pops the flag like start and help_command.
StateAfterOtherPops(ud, u) == [ud EXCEPT ![u] = "absent"]

\* handle_other_messages reads the flag and does not write it.
StateAfterOther(ud, u) == ud

\* (progress_msg.edit_text if progress_msg else message.reply_text)
Via == IF progress_msg THEN "edit_text" ELSE "reply_text"

\* An awaited reply that ends the handler: returns, or raises to the
\* Application, which calls error_handler.
Ends(ok) == pc' = IF ok THEN "done" ELSE "raised"

\* ------------------------------------------------------------ transport
\* The transport delivers an inbound update.
Receive ==
  /\ Len(queue) < MaxQueue
  /\ \E u \in Users, k \in Kinds : queue' = Append(queue, [user |-> u, kind |-> k])
  /\ UNCHANGED <<user_data, cur, pc, locals, outbox, history, counters,
                 armedAtDispatch>>

\* application.run_polling(): the next update is taken up when the handler
\* of the previous one (and error_handler, if it raised) has finished.
Dispatch ==
  /\ pc \in {"idle", "done"}
  /\ queue # <<>>
  /\ cur' = Head(queue)
  /\ queue' = Tail(queue)
  /\ pc' = Head(queue).kind
  /\ armedAtDispatch' = user_data[Head(queue).user]
  /\ progress_msg' = FALSE
  /\ step' = 0
  /\ image_byte_array' = ""
  /\ response' = NoResponse
  /\ pending' = NoMsg
  /\ raised' = FALSE
  /\ outbox' = <<>>
  /\ lateProgress' = FALSE
  /\ emissions' = 0
  /\ progressFailed' = FALSE
  /\ progressAfterFail' = FALSE
  /\ downloads' = 0
  /\ apiCalls' = 0
  /\ UNCHANGED <<user_data, callsSinceArm>>

\* ------------------------------------------------------------- handlers
start ==
  /\ pc = "start"
  /\ user_data' = PopState(user_data, cur.user)
  /\ \E ok \in BOOLEAN : Emit(WelcomeMsg, "reply_text", ok) /\ Ends(ok)
  /\ UNCHANGED <<queue, cur, locals, history, counters, armedAtDispatch>>

help_command ==
  /\ pc = "help"
  /\ user_data' = PopState(user_data, cur.user)
  /\ \E ok \in BOOLEAN : Emit(HelpMsg, "reply_text", ok) /\ Ends(ok)
  /\ UNCHANGED <<queue, cur, locals, history, counters, armedAtDispatch>>

handle_remove_bg_button_press ==
  /\ pc = "arm"
  /\ user_data' = SetWaiting(user_data, cur.user)
  /\ callsSinceArm' = [callsSinceArm EXCEPT ![cur.user] = 0]
  /\ \E ok \in BOOLEAN : Emit(ArmedMsg, "reply_text", ok) /\ Ends(ok)
  /\ UNCHANGED <<queue, cur, locals, history, downloads, apiCalls,
                 armedAtDispatch>>

handle_other_messages ==
  /\ pc = "other"
  /\ \E ok \in BOOLEAN :
       /\ Emit(IF IsWaitingForImage(user_data[cur.user]) THEN WaitingMsg ELSE IdleMsg,
               "reply_text", ok)
       /\ Ends(ok)
  /\ user_data' = StateAfterOther(user_data, cur.user)
  /\ UNCHANGED <<queue, cur, locals, history, counters, armedAtDispatch>>

\* handle_photo, the else branch: not waiting for an image.
handle_photo_rejected ==
  /\ pc = "photo"
  /\ ~IsWaitingForImage(user_data[cur.user])
  /\ \E ok \in BOOLEAN : Emit(PromptMsg, "reply_text", ok) /\ Ends(ok)
  /\ UNCHANGED <<user_data, queue, cur, locals, history, counters,
                 armedAtDispatch>>

\* handle_photo, waiting for an image: the 0% progress message.
handle_photo_accepted ==
  /\ pc = "photo"
  /\ IsWaitingForImage(user_data[cur.user])
  /\ \E ok \in BOOLEAN :
       /\ progress_msg' = ok
       /\ pc' = IF ok THEN "steps" ELSE "initial_failed"
       /\ Progress(ok)
  /\ UNCHANGED <<user_data, queue, cur, step, image_byte_array, response, pending,
                 raised, outbox, counters, armedAtDispatch>>

\* The except clause of the 0% message: apologise, then reset and return.
handle_photo_initial_failed ==
  /\ pc = "initial_failed"
  /\ \E ok \in BOOLEAN :
       /\ Emit(InitialFailMsg, "reply_text", ok)
       /\ pc' = IF ok THEN AfterInitialApology ELSE "raised"
       /\ user_data' = IF ok THEN [user_data EXCEPT ![cur.user] = "false"]
                       ELSE user_data
  /\ UNCHANGED <<queue, cur, locals, history, counters, armedAtDispatch>>

\* One round of the loop over steps: sleep, then edit the progress message.
handle_photo_step ==
  /\ pc = "steps"
  /\ step < Len(steps)
  /\ step' = step + 1
  /\ \E ok \in BOOLEAN :
       /\ progress_msg' = AfterEdit(ok)
       /\ pc' = IF LoopContinues(ok, step + 1) THEN "steps" ELSE "edit_downloading"
       /\ Progress(ok)
  /\ UNCHANGED <<user_data, queue, cur, image_byte_array, response, pending, raised,
                 outbox, counters, armedAtDispatch>>

\* A guarded progress edit: skipped without a progress message, and a
\* failure drops the progress message.
ProgressEdit ==
  IF progress_msg
  THEN \E ok \in BOOLEAN : progress_msg' = AfterEdit(ok) /\ Progress(ok)
  ELSE UNCHANGED <<progress_msg, history>>

handle_photo_edit_downloading ==
  /\ pc = "edit_downloading"
  /\ ProgressEdit
  /\ pc' = "get_file"
  /\ UNCHANGED <<user_data, queue, cur, step, image_byte_array, response, pending,
                 raised, outbox, counters, armedAtDispatch>>

\* context.bot.get_file: a failure is caught by except Exception.
handle_photo_get_file ==
  /\ pc = "get_file"
  /\ downloads' = downloads + 1
  /\ \E ok \in BOOLEAN :
       /\ pc' = AfterGetFile(ok)
       /\ pending' = IF ok THEN pending ELSE InternalMsg
  /\ UNCHANGED <<user_data, queue, cur, progress_msg, step, image_byte_array,
                 response, raised, outbox, history, apiCalls, callsSinceArm,
                 armedAtDispatch>>

\* photo_file_obj.download_as_bytearray()
handle_photo_download ==
  /\ pc = "download"
  /\ \E ok \in BOOLEAN :
       /\ pc' = AfterDownload(ok)
       /\ pending' = IF ok THEN pending ELSE InternalMsg
       /\ image_byte_array' = IF ok THEN "upload_bytes" ELSE image_byte_array
  /\ UNCHANGED <<user_data, queue, cur, progress_msg, step, response, raised,
                 outbox, history, counters, armedAtDispatch>>

handle_photo_edit_sending ==
  /\ pc = "edit_sending"
  /\ ProgressEdit
  /\ pc' = "post"
  /\ UNCHANGED <<user_data, queue, cur, step, image_byte_array, response, pending,
                 raised, outbox, counters, armedAtDispatch>>

\* requests.post, raise_for_status, the content-type test and the choice
\* of except clause: no await in between.
handle_photo_post ==
  /\ pc = "post"
  /\ apiCalls' = apiCalls + 1
  /\ callsSinceArm' = [callsSinceArm EXCEPT ![cur.user] = @ + 1]
  /\ \E r \in Responses :
       /\ response' = r
       /\ pc' = AfterPost(r, image_byte_array).next
       /\ pending' = AfterPost(r, image_byte_array).msg
       /\ raised' = AfterPost(r, image_byte_array).exc
  /\ UNCHANGED <<user_data, queue, cur, progress_msg, step, image_byte_array,
                 outbox, history, downloads, armedAtDispatch>>

\* Non-image content: report it, reset the flag and return (through
\* finally); a failed send is caught by except Exception.
handle_photo_send_unexpected ==
  /\ pc = "send_unexpected"
  /\ \E ok \in BOOLEAN :
       /\ Emit(pending, Via, ok)
       /\ pc' = IF ok THEN "finally" ELSE "send_error"
       /\ pending' = IF ok THEN pending ELSE InternalMsg
       /\ user_data' = IF ok THEN [user_data EXCEPT ![cur.user] = "false"]
                       ELSE user_data
  /\ UNCHANGED <<queue, cur, progress_msg, step, image_byte_array, response, raised,
                 history, counters, armedAtDispatch>>

handle_photo_edit_completed ==
  /\ pc = "edit_completed"
  /\ ProgressEdit
  /\ pc' = "send_document"
  /\ UNCHANGED <<user_data, queue, cur, step, image_byte_array, response, pending,
                 raised, outbox, counters, armedAtDispatch>>

\* A handler that goes back to the completion edit after the document.
AfterDocumentSentEditAgain == "edit_completed"

\* After send_document the try block is over.
AfterDocumentSent == "finally"

\* context.bot.send_document: a failure is caught by except Exception.
handle_photo_send_document ==
  /\ pc = "send_document"
  /\ \E ok \in BOOLEAN :
       /\ Emit(pending, "send_document", ok)
       /\ pc' = IF ok THEN AfterDocumentSent ELSE "send_error"
       /\ pending' = IF ok THEN pending ELSE InternalMsg
  /\ UNCHANGED <<user_data, queue, cur, progress_msg, step, image_byte_array,
                 response, raised, history, counters, armedAtDispatch>>

\* The send of an except clause; its failure leaves the try statement.
handle_photo_send_error ==
  /\ pc = "send_error"
  /\ \E ok \in BOOLEAN :
       /\ Emit(pending, Via, ok)
       /\ raised' = ~ok
  /\ pc' = "finally"
  /\ UNCHANGED <<user_data, queue, cur, progress_msg, step, image_byte_array,
                 response, pending, history, counters, armedAtDispatch>>

handle_photo_finally ==
  /\ pc = "finally"
  /\ user_data' = FinallyResetState(user_data, cur.user)
  /\ pc' = IF raised THEN "raised" ELSE "done"
  /\ UNCHANGED <<queue, cur, locals, outbox, history, counters, armedAtDispatch>>

\* The Application calls error_handler with the update whose handler raised.
error_handler ==
  /\ pc = "raised"
  /\ user_data' = PopState(user_data, cur.user)
  /\ \E ok \in BOOLEAN : Emit(OopsMsg, "reply_text", ok)
  /\ pc' = "done"
  /\ UNCHANGED <<queue, cur, locals, history, counters, armedAtDispatch>>

Next ==
  \/ Receive
  \/ Dispatch
  \/ start
  \/ help_command
  \/ handle_remove_bg_button_press
  \/ handle_other_messages
  \/ handle_photo_rejected
  \/ handle_photo_accepted
  \/ handle_photo_initial_failed
  \/ handle_photo_step
  \/ handle_photo_edit_downloading
  \/ handle_photo_get_file
  \/ handle_photo_download
  \/ handle_photo_edit_sending
  \/ handle_photo_post
  \/ handle_photo_send_unexpected
  \/ handle_photo_edit_completed
  \/ handle_photo_send_document
  \/ handle_photo_send_error
  \/ handle_photo_finally
  \/ error_handler

Spec == Init /\ [][Next]_vars

TypeOK ==
  /\ user_data \in [Users -> WaitingValues]
  /\ Len(queue) <= MaxQueue
  /\ progress_msg \in BOOLEAN
  /\ step \in 0..Len(steps)
  /\ downloads \in 0..1
  /\ apiCalls \in 0..1

\* ------------------------------------------------------------ properties
\* The update being handled is a photo that arrived for an armed user.
PhotoAccepted == cur.kind = "photo" /\ armedAtDispatch = "true"

\* The handling of the update is over (handler and, if it raised,
\* error_handler).
Terminal == pc = "done"

\* error_handler ran for this update.
Faulted == \E k \in 1..Len(outbox) : outbox[k].msg = OopsMsg

IsOk(e) == e.ok
IsDocument(e) == e.msg.label = "document"
Delivered == SelectSeq(outbox, IsOk)
Documents == SelectSeq(outbox, IsDocument)

\* The handler is past requests.post.
AfterPostPcs ==
  {"send_unexpected", "edit_completed", "send_document", "send_error", "finally",
   "raised", "done"}

Is2xx(s) == 200 <= s /\ s <= 299

\* The declared media type is an image type.
DeclaresImage(ct) == ct # <<>> /\ ct[1] \in {"image/", "Image/"}

\* C1: a photo handled while the flag is not True starts no download and no
\* API call, is answered with the tap-the-button prompt, and handle_photo
\* leaves the flag as it was (if the prompt cannot be sent, error_handler
\* pops the flag, which still reads as not armed).
C1_RejectedWhenNotArmed ==
  (cur.kind = "photo" /\ armedAtDispatch # "true" /\ pc # "photo") =>
    /\ downloads = 0
    /\ apiCalls = 0
    /\ response = NoResponse
    /\ image_byte_array = ""
    /\ ~progress_msg /\ step = 0
    /\ outbox # <<>>
    /\ outbox[1].msg = PromptMsg /\ outbox[1].via = "reply_text"
    /\ user_data[cur.user] # "true"
    /\ (~Faulted => user_data[cur.user] = armedAtDispatch)
    /\ (pc = "done" /\ outbox[1].ok => Len(outbox) = 1)

C1_Witness ==
  /\ cur.kind = "photo" /\ armedAtDispatch = "false" /\ pc = "done"
  /\ Len(outbox) = 1 /\ outbox[1].msg = PromptMsg /\ outbox[1].ok
  /\ user_data[cur.user] = "false"

\* C2: when the handling of a photo accepted while armed is over, the flag
\* is not True: False on the paths that end in the handler, absent when
\* an exception left the handler and error_handler popped the flag.
C2_DisarmedAtTerminal ==
  (PhotoAccepted /\ Terminal) =>
    user_data[cur.user] = IF Faulted THEN "absent" ELSE "false"

C2_Witness ==
  /\ PhotoAccepted /\ Terminal /\ Faulted
  /\ response.kind = "raise"
  /\ user_data[cur.user] = "absent"

\* C3: between two presses of the button a user causes at most one
\* requests.post, and one update at most one; a photo that arrives while
\* the first is in flight waits in the queue.
C3_AtMostOneCallPerArming ==
  /\ apiCalls <= 1
  /\ \A u \in Users : callsSinceArm[u] <= 1
  /\ (pc = "post" => callsSinceArm[cur.user] = 0)

C3_Witness ==
  /\ PhotoAccepted
  /\ pc \in {"send_error", "send_document", "send_unexpected"}
  /\ callsSinceArm[cur.user] = 1
  /\ queue # <<>> /\ Head(queue) = [user |-> cur.user, kind |-> "photo"]

\* C4 (as claimed): a photo accepted while armed ends with exactly one
\* delivered final message and never reaches error_handler.
C4_ExactlyOneFinalMessage ==
  (PhotoAccepted /\ Terminal) => (Len(Delivered) = 1 /\ ~Faulted)

\* C5: no progress emission is attempted after a final (non-progress)
\* message of the same request was sent; once one was sent the handler is
\* past its last progress edit.
C5_NoProgressAfterFinal ==
  /\ ~lateProgress
  /\ (PhotoAccepted /\ outbox # <<>> =>
        pc \in {"send_error", "finally", "raised", "done"})

C5_Witness ==
  /\ PhotoAccepted /\ Terminal /\ progress_msg /\ step = Len(steps)
  /\ Len(outbox) = 1 /\ IsDocument(outbox[1]) /\ outbox[1].ok

\* C6: when requests.post times out, the message the handler sends is the
\* timed-out message, never the could-not-connect or the unexpected-error
\* message.
C6_TimeoutMessage ==
  (response.kind = "raise" /\ response.exc \in {"ReadTimeout", "ConnectTimeout"}) =>
    /\ (pc = "send_error" => pending = TimeoutMsg /\ outbox = <<>>)
    /\ (pc # "send_error" => outbox # <<>> /\ outbox[1].msg = TimeoutMsg)
    /\ \A k \in 1..Len(outbox) :
         /\ outbox[k].msg \in {TimeoutMsg, OopsMsg}
         /\ (outbox[k].msg = OopsMsg => k = 2 /\ ~outbox[1].ok)

C6_Witness ==
  /\ response.kind = "raise" /\ response.exc = "ConnectTimeout" /\ Terminal
  /\ Len(outbox) = 1 /\ outbox[1].msg = TimeoutMsg /\ outbox[1].ok

TitledWithDetail(resp) ==
  /\ resp.kind = "resp" /\ resp.status >= 400
  /\ resp.body.json.t = "obj"
  /\ resp.body.json.errors.t = "list"
  /\ Len(resp.body.json.errors.items) > 0
  /\ resp.body.json.errors.items[1].t = "obj"
  /\ resp.body.json.errors.items[1].hasTitle
  /\ resp.body.json.errors.items[1].hasDetail

\* C8: for an error status with errors[0] carrying title and detail, the
\* one message the handler sends carries the status code, the title and
\* the detail.
C8_TitledApiError ==
  TitledWithDetail(response) =>
    LET first == response.body.json.errors.items[1]
        m == IF pc = "send_error" THEN pending ELSE outbox[1].msg
    IN /\ pc \in {"send_error", "finally", "raised", "done"}
       /\ (pc = "send_error") = (outbox = <<>>)
       /\ m.label = "api_error"
       /\ m.status = response.status
       /\ m.title = first.title /\ m.title # ""
       /\ m.detail = first.detail /\ m.detail # ""
       /\ \A k \in 2..Len(outbox) : outbox[k].msg = OopsMsg

C8_Witness ==
  /\ TitledWithDetail(response) /\ response.status = 400 /\ Terminal
  /\ Len(outbox) = 1 /\ outbox[1].ok
  /\ outbox[1].msg.title = "Insufficient credits"
  /\ outbox[1].msg.detail = "no credits left"

\* C9 (as claimed): every non-2xx response is reported with an API-error
\* message, and the content-type outcomes are reached only for 2xx.
C9_NonSuccessIsApiError ==
  (response.kind = "resp" /\ pc \in AfterPostPcs) =>
    IF Is2xx(response.status)
    THEN TRUE
    ELSE /\ pc \notin {"send_unexpected", "edit_completed", "send_document"}
         /\ (pc = "send_error" /\ outbox = <<>> => pending.label = "api_error")
         /\ (pc \in {"finally", "raised", "done"} =>
               outbox # <<>> /\ outbox[1].msg.label = "api_error")

\* C10: a 2xx response with an image Content-Type (PNG or not) leads to one
\* send_document carrying the bytes of the response body, first of all
\* final messages and the only one if it is delivered; the flag is not
\* True at the end.
C10_SuccessDelivers ==
  (response.kind = "resp" /\ Is2xx(response.status)
     /\ DeclaresImage(response.ctype)) =>
    /\ pc \in {"edit_completed", "send_document", "send_error", "finally",
               "raised", "done"}
    /\ (pc \in {"edit_completed", "send_document"} =>
          /\ outbox = <<>>
          /\ pending.label = "document"
          /\ pending.bytes = response.body.id)
    /\ (pc \in {"send_error", "finally", "raised", "done"} =>
          /\ Len(Documents) = 1
          /\ IsDocument(outbox[1])
          /\ outbox[1].via = "send_document"
          /\ outbox[1].msg.bytes = response.body.id
          /\ (outbox[1].ok => Len(outbox) = 1))
    /\ (Terminal => user_data[cur.user] # "true")

C10_Witness ==
  /\ response.kind = "resp" /\ response.status = 200
  /\ response.ctype = <<"image/", "jpeg">>
  /\ Terminal /\ Len(outbox) = 1 /\ outbox[1].ok
  /\ outbox[1].msg.bytes = "png_bytes"
  /\ outbox[1].msg.filename = <<"bg_removed_output.", "jpeg">>
  /\ user_data[cur.user] = "false"

IsOops(e) == e.msg = OopsMsg
IsInitialFail(e) == e.msg = InitialFailMsg

\* C11: when requests.post raises a connection error, the message the
\* handler sends is the could-not-connect message, nothing else but
\* error_handler's apology follows, no progress emission and no document
\* follows, and the flag is not True at the end.
C11_ConnectionError ==
  (response.kind = "raise" /\ response.exc = "ConnectionError") =>
    /\ pc \in {"send_error", "finally", "raised", "done"}
    /\ (pc = "send_error" => pending = ConnectMsg /\ outbox = <<>>)
    /\ (pc # "send_error" => outbox # <<>> /\ outbox[1].msg = ConnectMsg)
    /\ \A k \in 1..Len(outbox) :
         /\ outbox[k].msg \in {ConnectMsg, OopsMsg}
         /\ (outbox[k].msg = OopsMsg => k = 2 /\ ~outbox[1].ok)
    /\ ~lateProgress
    /\ (Terminal => user_data[cur.user] # "true")

C11_Witness ==
  /\ response.kind = "raise" /\ response.exc = "ConnectionError" /\ Terminal
  /\ Len(outbox) = 1 /\ outbox[1].msg = ConnectMsg /\ outbox[1].ok
  /\ user_data[cur.user] = "false"

\* C12 (as claimed): after a rejected progress emission, later progress
\* emissions are still attempted before the API call.
C12_FailedEmissionDoesNotStop ==
  (PhotoAccepted /\ progressFailed /\ pc = "post") => progressAfterFail

\* C12 (amended): a rejected progress emission ends the progress reporting
\* of the request: the progress message is dropped and no later progress
\* emission is attempted.
C12_FailedEmissionStops ==
  /\ ~progressAfterFail
  /\ (progressFailed => ~progress_msg)
  /\ (progressFailed /\ step > 0 /\ step < Len(steps) => emissions = step + 1)

C12_Witness ==
  /\ PhotoAccepted /\ Terminal /\ progressFailed /\ step = 1 /\ emissions = 2
  /\ Len(outbox) = 1 /\ IsDocument(outbox[1]) /\ outbox[1].ok

FetchFailed ==
  PhotoAccepted /\ downloads > 0 /\ image_byte_array = "" /\ pc # "download"

\* C14: requests.post is called only after the download has returned the
\* upload, a document is sent only after a response below 400, a failed
\* fetch leads to no API call, and a failed API call to no document.
C14_FetchThenCallThenDelivery ==
  /\ (pc = "post" \/ apiCalls > 0 =>
        downloads = 1 /\ image_byte_array = "upload_bytes")
  /\ (FetchFailed => apiCalls = 0 /\ response = NoResponse /\ pc # "post")
  /\ (Documents # <<>> \/ pc \in {"edit_completed", "send_document"} =>
        apiCalls = 1 /\ response.kind = "resp" /\ response.status < 400)
  /\ (response.kind = "raise" \/ response.status >= 400 =>
        Documents = <<>> /\ pc \notin {"edit_completed", "send_document"})

C14_Witness ==
  /\ PhotoAccepted /\ Terminal /\ image_byte_array = "upload_bytes"
  /\ response.kind = "resp" /\ response.status = 503
  /\ Documents = <<>> /\ Len(outbox) = 1 /\ outbox[1].ok

\* C15 (as claimed): a failed fetch is reported with the could-not-connect
\* message.
C15_FetchFailureIsTransportError ==
  FetchFailed =>
    /\ (pc = "send_error" => pending = ConnectMsg)
    /\ (outbox # <<>> => outbox[1].msg = ConnectMsg)

\* C15 (amended): a failed fetch is caught by except Exception: the handler
\* sends the unexpected-error message, the fetch is not retried, no API
\* call is made and the flag is not True at the end.
C15_FetchFailureIsInternalError ==
  FetchFailed =>
    /\ pc \in {"send_error", "finally", "raised", "done"}
    /\ downloads = 1
    /\ apiCalls = 0
    /\ (pc = "send_error" => pending = InternalMsg /\ outbox = <<>>)
    /\ (pc # "send_error" => outbox # <<>> /\ outbox[1].msg = InternalMsg)
    /\ \A k \in 1..Len(outbox) : outbox[k].msg \in {InternalMsg, OopsMsg}
    /\ (Terminal => user_data[cur.user] # "true")

C15_Witness ==
  /\ FetchFailed /\ Terminal
  /\ Len(outbox) = 1 /\ outbox[1].msg = InternalMsg /\ outbox[1].ok
  /\ user_data[cur.user] = "false"

\* C16 (as claimed): an armed flag stops being True only in the handling
\* of that user's photo, /start or button press.
C16_ArmedUntilPhotoOrRestart ==
  [][\A u \in Users :
       (user_data[u] = "true" /\ user_data'[u] # "true") =>
         (cur.user = u /\ cur.kind \in {"photo", "start", "arm"})]_vars

\* C16 (amended): an armed flag stops being True only in the handling of
\* that user's photo, /start or /help, or in error_handler after the
\* handler of one of that user's updates raised.
C16_ArmedUntilPhotoStartHelpOrFault ==
  [][\A u \in Users :
       (user_data[u] = "true" /\ user_data'[u] # "true") =>
         (cur.user = u /\ (cur.kind \in {"photo", "start", "help"} \/ pc = "raised"))]_vars

C16_Witness ==
  /\ cur.kind = "other" /\ armedAtDispatch = "true" /\ Terminal
  /\ Len(outbox) = 1 /\ outbox[1].msg = WaitingMsg /\ outbox[1].ok
  /\ user_data[cur.user] = "true"

C18_SessionsIsolated ==
  [][/\ \A u \in Users : user_data'[u] # user_data[u] => cur.user = u
     /\ (pc = "photo" /\ pc' \in {"steps", "initial_failed"} =>
           user_data[cur.user] = "true")]_vars

C18_Witness ==
  /\ cur.kind = "photo" /\ armedAtDispatch # "true" /\ Terminal
  /\ outbox # <<>> /\ outbox[1].msg = PromptMsg
  /\ \E v \in Users : v # cur.user /\ user_data[v] = "true"

\* The 0% progress message of an accepted photo could not be sent.
InitialFailed == PhotoAccepted /\ pc # "photo" /\ emissions = 1 /\ progressFailed

\* C19: when the 0% message cannot be sent the handler stops: no get_file,
\* no API call, one apology attempted; the flag is False if the apology
\* was sent and still True when the handler raises.
C19_InitialProgressFailure ==
  InitialFailed =>
    /\ pc \in {"initial_failed", "raised", "done"}
    /\ downloads = 0 /\ apiCalls = 0 /\ response = NoResponse
    /\ (pc = "initial_failed") = (outbox = <<>>)
    /\ (pc # "initial_failed" =>
          /\ outbox[1].msg = InitialFailMsg
          /\ Len(SelectSeq(outbox, IsInitialFail)) = 1
          /\ (outbox[1].ok =>
                pc = "done" /\ Len(outbox) = 1 /\ user_data[cur.user] = "false")
          /\ (pc = "raised" => ~outbox[1].ok /\ user_data[cur.user] = "true"))

C19_Witness ==
  /\ InitialFailed /\ Terminal
  /\ Len(outbox) = 1 /\ outbox[1].msg = InitialFailMsg /\ outbox[1].ok
  /\ user_data[cur.user] = "false"

\* C20 (as claimed): the handling of a non-photo message never changes
\* whether the user is armed and starts no download and no API call.
C20_OtherNeverChangesFlag ==
  (cur.kind = "other" /\ pc # "other") =>
    /\ (user_data[cur.user] = "true") = (armedAtDispatch = "true")
    /\ downloads = 0 /\ apiCalls = 0

\* C20 (amended): a non-photo message starts no download and no API call,
\* its reply text depends on the flag, and handle_other_messages leaves
\* the flag as it was; only when its reply raises does error_handler pop
\* the flag.
C20_OtherLeavesFlagUnlessFault ==
  (cur.kind = "other" /\ pc # "other") =>
    /\ downloads = 0 /\ apiCalls = 0 /\ response = NoResponse /\ emissions = 0
    /\ outbox # <<>>
    /\ outbox[1].msg = IF armedAtDispatch = "true" THEN WaitingMsg ELSE IdleMsg
    /\ outbox[1].via = "reply_text"
    /\ user_data[cur.user] = IF Faulted THEN "absent" ELSE armedAtDispatch
    /\ (outbox[1].ok => pc = "done" /\ Len(outbox) = 1)

C20_Witness ==
  /\ cur.kind = "other" /\ armedAtDispatch = "false" /\ Terminal
  /\ Len(outbox) = 1 /\ outbox[1].msg = IdleMsg /\ outbox[1].ok
  /\ user_data[cur.user] = "false"

====
